---- MODULE Spec2Model ----
(***************************************************************************)
(* CloudTranslate for Windows (src/translator.py): the translation-session *)
(* controller.  The model covers the language catalog helpers, the usage   *)
(* ledger and history log with their JSON documents on disk, and the       *)
(* translate handler of TranslatorApp with its three confirmation dialogs, *)
(* the call to the translation service and the two saves that follow it.   *)
(*                                                                         *)
(* Strings the program inspects (display items, language codes) are        *)
(* sequences of one-character strings.  The text to translate is kept      *)
(* run-length encoded, a sequence of runs [ch, n] ("n times ch"), so that  *)
(* texts of 5,000 or 20,000 characters stay small values; strip and len    *)
(* are computed on the runs.                                               *)
(*                                                                         *)
(* Spec is the program with its process, clock and documents.  SpecHistory *)
(* is the same program started on history.json documents of up to 501      *)
(* entries.  SpecFunctions applies parse_lang, get_display_for_code or     *)
(* load_history_to_ui on its own, once, to an argument of bounded length.  *)
(* Timestamps are the strings strftime writes and strptime reads.          *)
(***************************************************************************)
EXTENDS Integers, Sequences, FiniteSets, TLC

VARIABLES
    clock,            \* datetime.datetime.now(), to the second
    config_file,      \* config.json on disk
    config_data,      \* TranslatorApp.config_data: what load_config returned
    usage_file,       \* usage.json on disk
    history_file,     \* history.json on disk
    app,              \* "off" | "running": the process
    usage_data,       \* TranslatorApp.usage_data
    history_data,     \* TranslatorApp.history_data
    from_combo,       \* text shown in the "From" combo box
    to_combo,         \* text shown in the "To" combo box
    last_from_valid,  \* TranslatorApp.last_from_valid
    last_to_valid,    \* TranslatorApp.last_to_valid
    pc,               \* where translate() stands
    req,              \* the locals of the translate() invocation
    result,           \* how the last translate() invocation ended, or the
                      \* error that kept main() from starting the window
    gates,            \* the confirmation dialogs raised by this invocation
    calls,            \* calls of google_translate made by this invocation
    pre,              \* ledger, history and both documents at translate() entry
    loaded,           \* arguments and results of the loads of the last start
    commits,          \* translations google_translate returned since Init
    usage_label,      \* what usage_label and reset_label show
    call,             \* a function applied on its own: its name and arguments
    ret               \* what that application returned

vars == <<clock, config_file, config_data, usage_file, history_file, app, usage_data,
          history_data, from_combo, to_combo, last_from_valid, last_to_valid,
          pc, req, result, gates, calls, pre, loaded, commits, usage_label,
          call, ret>>

-----------------------------------------------------------------------------
(* Bounds of the model *)

\* the clock moves on, by half a month, at most this many times
MaxTicks == 1
\* google_translate returns a translation at most this many times in one
\* behaviour
MaxCommits == 1
\* a display list handed to get_display_for_code has at most this many items
MaxListLen == 3
\* a history handed to load_history_to_ui has at most this many entries
MaxRenderLen == 3
\* a text handed to parse_lang that is no display item has at most this
\* many characters
MaxParseLen == 4

-----------------------------------------------------------------------------
(* Strings *)

Min(a, b) == IF a < b THEN a ELSE b

\* the characters str.strip() removes: those for which str.isspace() holds.
\* A character TLA+ has no escape for is written as its Python escape.
Whitespace ==
    { " ", "\t", "\n", "\r", "\f", "\\x0b", "\\x1c", "\\x1d", "\\x1e", "\\x1f",
      "\\x85", "\\xa0", "\\u1680", "\\u2000", "\\u2001", "\\u2002", "\\u2003",
      "\\u2004", "\\u2005", "\\u2006", "\\u2007", "\\u2008", "\\u2009",
      "\\u200a", "\\u2028", "\\u2029", "\\u202f", "\\u205f", "\\u3000" }

\* str.startswith
StartsWith(s, p) == Len(s) >= Len(p) /\ SubSeq(s, 1, Len(p)) = p

\* str.endswith
EndsWith(s, p) ==
    Len(s) >= Len(p) /\ SubSeq(s, Len(s) - Len(p) + 1, Len(s)) = p

RECURSIVE LStripChars(_, _)
LStripChars(s, cs) ==
    IF s # <<>> /\ Head(s) \in cs THEN LStripChars(Tail(s), cs) ELSE s

RECURSIVE RStripChars(_, _)
RStripChars(s, cs) ==
    IF s # <<>> /\ s[Len(s)] \in cs
    THEN RStripChars(SubSeq(s, 1, Len(s) - 1), cs)
    ELSE s

\* str.strip(chars): both ends, every leading and trailing character of cs
StripChars(s, cs) == RStripChars(LStripChars(s, cs), cs)

\* c in s
Contains(s, c) == \E i \in 1..Len(s) : s[i] = c

\* s.split(c)[-1]: what follows the last c, all of s when c does not occur
RECURSIVE AfterLast(_, _)
AfterLast(s, c) ==
    IF ~Contains(s, c) THEN s ELSE AfterLast(Tail(s), c)

-----------------------------------------------------------------------------
(* Languages and display helpers *)

en_code == <<"e", "n">>
th_code == <<"t", "h">>
ar_code == <<"a", "r">>
zh_code == <<"z", "h">>
fr_code == <<"f", "r">>
ru_code == <<"r", "u">>
es_code == <<"e", "s">>
ja_code == <<"j", "a">>
ko_code == <<"k", "o">>
de_code == <<"d", "e">>

LANG_CODES ==
    (en_code :> <<"E", "n", "g", "l", "i", "s", "h">>) @@
    (th_code :> <<"T", "h", "a", "i">>) @@
    (ar_code :> <<"A", "r", "a", "b", "i", "c">>) @@
    (zh_code :> <<"C", "h", "i", "n", "e", "s", "e">>) @@
    (fr_code :> <<"F", "r", "e", "n", "c", "h">>) @@
    (ru_code :> <<"R", "u", "s", "s", "i", "a", "n">>) @@
    (es_code :> <<"S", "p", "a", "n", "i", "s", "h">>) @@
    (ja_code :> <<"J", "a", "p", "a", "n", "e", "s", "e">>) @@
    (ko_code :> <<"K", "o", "r", "e", "a", "n">>) @@
    (de_code :> <<"G", "e", "r", "m", "a", "n">>)

\* f"{LANG_CODES.get(code, code)} ({code})"
format_lang(code) ==
    (IF code \in DOMAIN LANG_CODES THEN LANG_CODES[code] ELSE code)
        \o <<" ", "(">> \o code \o <<")">>

WHO_SEPARATOR ==
    <<"-", "-", "-", " ", "W", "H", "O", " ", "L", "a", "n", "g", "u", "a",
      "g", "e", "s", " ", "-", "-", "-">>

EXTRA_SEPARATOR ==
    <<"-", "-", "-", " ", "E", "x", "t", "r", "a", " ", "L", "a", "n", "g",
      "u", "a", "g", "e", "s", " ", "-", "-", "-">>

build_lang_display_list ==
    <<format_lang(en_code), format_lang(th_code)>>
    \o <<WHO_SEPARATOR>>
    \o <<format_lang(ar_code), format_lang(zh_code), format_lang(fr_code),
         format_lang(ru_code), format_lang(es_code)>>
    \o <<EXTRA_SEPARATOR>>
    \o <<format_lang(ja_code), format_lang(ko_code), format_lang(de_code)>>

\* text.strip().startswith("---")
is_separator_item(text) ==
    StartsWith(StripChars(text, Whitespace), <<"-", "-", "-">>)

\* the first non-separator item ending with "(code)", else display_list[0]
RECURSIVE FirstMatch(_, _)
FirstMatch(code_part, items) ==
    IF items = <<>> THEN <<>>
    ELSE IF ~is_separator_item(Head(items)) /\ EndsWith(Head(items), code_part)
         THEN <<Head(items)>>
         ELSE FirstMatch(code_part, Tail(items))

get_display_for_code(code, display_list) ==
    LET found == FirstMatch(<<"(">> \o code \o <<")">>, display_list)
    IN  IF found # <<>> THEN found[1] ELSE display_list[1]

\* a variant of parse_lang that leaves the ")" where they are
parse_lang_keeps_paren(display_text) ==
    IF Contains(display_text, "(") /\ Contains(display_text, ")")
    THEN AfterLast(display_text, "(")
    ELSE display_text

\* "English (en)" -> "en"
parse_lang(display_text) ==
    IF Contains(display_text, "(") /\ Contains(display_text, ")")
    THEN StripChars(AfterLast(display_text, "("), {")"})
    ELSE display_text

-----------------------------------------------------------------------------
(* The text to translate, run-length encoded *)

Run(c, k) == [ch |-> c, n |-> k]

RECURSIVE TextLen(_)
\* len(text)
TextLen(t) == IF t = <<>> THEN 0 ELSE Head(t).n + TextLen(Tail(t))

RECURSIVE TextLStrip(_)
TextLStrip(t) ==
    IF t # <<>> /\ Head(t).ch \in Whitespace THEN TextLStrip(Tail(t)) ELSE t

RECURSIVE TextRStrip(_)
TextRStrip(t) ==
    IF t # <<>> /\ t[Len(t)].ch \in Whitespace
    THEN TextRStrip(SubSeq(t, 1, Len(t) - 1))
    ELSE t

\* text.strip()
TextStrip(t) == TextRStrip(TextLStrip(t))

RECURSIVE TextTake(_, _)
\* text[:k]
TextTake(t, k) ==
    IF t = <<>> \/ k <= 0 THEN <<>>
    ELSE IF Head(t).n >= k THEN <<Run(Head(t).ch, k)>>
         ELSE <<Head(t)>> \o TextTake(Tail(t), k - Head(t).n)

\* text.replace(old, new) for single characters
TextReplace(t, old, new) ==
    [i \in DOMAIN t |-> IF t[i].ch = old THEN Run(new, t[i].n) ELSE t[i]]

Hello == <<Run("H", 1), Run("e", 1), Run("l", 2), Run("o", 1)>>

\* what the user may have in the input box when pressing Translate
TextInputs ==
    { <<>>,
      <<Run(" ", 1), Run("\r", 1), Run("\\x0b", 1)>>,
      Hello,
      <<Run("\f", 1)>> \o Hello \o <<Run("\n", 1)>>,
      <<Run("x", 4999)>>,
      <<Run(" ", 1), Run("x", 4999)>>,
      <<Run("x", 5000)>>,
      <<Run("y", 20000)>> }

-----------------------------------------------------------------------------
(* config.json, usage.json, history.json *)

\* the value the program starts with at Init: 15 December 2025, 09:30:00
StartClock ==
    [year |-> 2025, month |-> 12, day |-> 15,
     hour |-> 9, minute |-> 30, second |-> 0]

\* the clock moves on by about half a month
NextClock(now) ==
    IF now.day < 15 THEN [now EXCEPT !.day = 15]
    ELSE IF now.month = 12
         THEN [now EXCEPT !.year = now.year + 1, !.month = 1, !.day = 1]
         ELSE [now EXCEPT !.month = now.month + 1, !.day = 1]

\* datetime.datetime.now().strftime("%Y-%m")
month_key_of(now) == [year |-> now.year, month |-> now.month]

DigitChars == <<"0", "1", "2", "3", "4", "5", "6", "7", "8", "9">>

\* the decimal digits of all scripts, the characters \d of re matches and
\* int() reads, in the order of their code points: of each script the ten
\* digits 0 to 9; a character outside ASCII is written as its Python escape
DecimalDigits ==
    <<"0", "1", "2", "3", "4",
       "5", "6", "7", "8", "9",
       "\\u0660", "\\u0661", "\\u0662", "\\u0663", "\\u0664",
       "\\u0665", "\\u0666", "\\u0667", "\\u0668", "\\u0669",
       "\\u06f0", "\\u06f1", "\\u06f2", "\\u06f3", "\\u06f4",
       "\\u06f5", "\\u06f6", "\\u06f7", "\\u06f8", "\\u06f9",
       "\\u07c0", "\\u07c1", "\\u07c2", "\\u07c3", "\\u07c4",
       "\\u07c5", "\\u07c6", "\\u07c7", "\\u07c8", "\\u07c9",
       "\\u0966", "\\u0967", "\\u0968", "\\u0969", "\\u096a",
       "\\u096b", "\\u096c", "\\u096d", "\\u096e", "\\u096f",
       "\\u09e6", "\\u09e7", "\\u09e8", "\\u09e9", "\\u09ea",
       "\\u09eb", "\\u09ec", "\\u09ed", "\\u09ee", "\\u09ef",
       "\\u0a66", "\\u0a67", "\\u0a68", "\\u0a69", "\\u0a6a",
       "\\u0a6b", "\\u0a6c", "\\u0a6d", "\\u0a6e", "\\u0a6f",
       "\\u0ae6", "\\u0ae7", "\\u0ae8", "\\u0ae9", "\\u0aea",
       "\\u0aeb", "\\u0aec", "\\u0aed", "\\u0aee", "\\u0aef",
       "\\u0b66", "\\u0b67", "\\u0b68", "\\u0b69", "\\u0b6a",
       "\\u0b6b", "\\u0b6c", "\\u0b6d", "\\u0b6e", "\\u0b6f",
       "\\u0be6", "\\u0be7", "\\u0be8", "\\u0be9", "\\u0bea",
       "\\u0beb", "\\u0bec", "\\u0bed", "\\u0bee", "\\u0bef",
       "\\u0c66", "\\u0c67", "\\u0c68", "\\u0c69", "\\u0c6a",
       "\\u0c6b", "\\u0c6c", "\\u0c6d", "\\u0c6e", "\\u0c6f",
       "\\u0ce6", "\\u0ce7", "\\u0ce8", "\\u0ce9", "\\u0cea",
       "\\u0ceb", "\\u0cec", "\\u0ced", "\\u0cee", "\\u0cef",
       "\\u0d66", "\\u0d67", "\\u0d68", "\\u0d69", "\\u0d6a",
       "\\u0d6b", "\\u0d6c", "\\u0d6d", "\\u0d6e", "\\u0d6f",
       "\\u0de6", "\\u0de7", "\\u0de8", "\\u0de9", "\\u0dea",
       "\\u0deb", "\\u0dec", "\\u0ded", "\\u0dee", "\\u0def",
       "\\u0e50", "\\u0e51", "\\u0e52", "\\u0e53", "\\u0e54",
       "\\u0e55", "\\u0e56", "\\u0e57", "\\u0e58", "\\u0e59",
       "\\u0ed0", "\\u0ed1", "\\u0ed2", "\\u0ed3", "\\u0ed4",
       "\\u0ed5", "\\u0ed6", "\\u0ed7", "\\u0ed8", "\\u0ed9",
       "\\u0f20", "\\u0f21", "\\u0f22", "\\u0f23", "\\u0f24",
       "\\u0f25", "\\u0f26", "\\u0f27", "\\u0f28", "\\u0f29",
       "\\u1040", "\\u1041", "\\u1042", "\\u1043", "\\u1044",
       "\\u1045", "\\u1046", "\\u1047", "\\u1048", "\\u1049",
       "\\u1090", "\\u1091", "\\u1092", "\\u1093", "\\u1094",
       "\\u1095", "\\u1096", "\\u1097", "\\u1098", "\\u1099",
       "\\u17e0", "\\u17e1", "\\u17e2", "\\u17e3", "\\u17e4",
       "\\u17e5", "\\u17e6", "\\u17e7", "\\u17e8", "\\u17e9",
       "\\u1810", "\\u1811", "\\u1812", "\\u1813", "\\u1814",
       "\\u1815", "\\u1816", "\\u1817", "\\u1818", "\\u1819",
       "\\u1946", "\\u1947", "\\u1948", "\\u1949", "\\u194a",
       "\\u194b", "\\u194c", "\\u194d", "\\u194e", "\\u194f",
       "\\u19d0", "\\u19d1", "\\u19d2", "\\u19d3", "\\u19d4",
       "\\u19d5", "\\u19d6", "\\u19d7", "\\u19d8", "\\u19d9",
       "\\u1a80", "\\u1a81", "\\u1a82", "\\u1a83", "\\u1a84",
       "\\u1a85", "\\u1a86", "\\u1a87", "\\u1a88", "\\u1a89",
       "\\u1a90", "\\u1a91", "\\u1a92", "\\u1a93", "\\u1a94",
       "\\u1a95", "\\u1a96", "\\u1a97", "\\u1a98", "\\u1a99",
       "\\u1b50", "\\u1b51", "\\u1b52", "\\u1b53", "\\u1b54",
       "\\u1b55", "\\u1b56", "\\u1b57", "\\u1b58", "\\u1b59",
       "\\u1bb0", "\\u1bb1", "\\u1bb2", "\\u1bb3", "\\u1bb4",
       "\\u1bb5", "\\u1bb6", "\\u1bb7", "\\u1bb8", "\\u1bb9",
       "\\u1c40", "\\u1c41", "\\u1c42", "\\u1c43", "\\u1c44",
       "\\u1c45", "\\u1c46", "\\u1c47", "\\u1c48", "\\u1c49",
       "\\u1c50", "\\u1c51", "\\u1c52", "\\u1c53", "\\u1c54",
       "\\u1c55", "\\u1c56", "\\u1c57", "\\u1c58", "\\u1c59",
       "\\ua620", "\\ua621", "\\ua622", "\\ua623", "\\ua624",
       "\\ua625", "\\ua626", "\\ua627", "\\ua628", "\\ua629",
       "\\ua8d0", "\\ua8d1", "\\ua8d2", "\\ua8d3", "\\ua8d4",
       "\\ua8d5", "\\ua8d6", "\\ua8d7", "\\ua8d8", "\\ua8d9",
       "\\ua900", "\\ua901", "\\ua902", "\\ua903", "\\ua904",
       "\\ua905", "\\ua906", "\\ua907", "\\ua908", "\\ua909",
       "\\ua9d0", "\\ua9d1", "\\ua9d2", "\\ua9d3", "\\ua9d4",
       "\\ua9d5", "\\ua9d6", "\\ua9d7", "\\ua9d8", "\\ua9d9",
       "\\ua9f0", "\\ua9f1", "\\ua9f2", "\\ua9f3", "\\ua9f4",
       "\\ua9f5", "\\ua9f6", "\\ua9f7", "\\ua9f8", "\\ua9f9",
       "\\uaa50", "\\uaa51", "\\uaa52", "\\uaa53", "\\uaa54",
       "\\uaa55", "\\uaa56", "\\uaa57", "\\uaa58", "\\uaa59",
       "\\uabf0", "\\uabf1", "\\uabf2", "\\uabf3", "\\uabf4",
       "\\uabf5", "\\uabf6", "\\uabf7", "\\uabf8", "\\uabf9",
       "\\uff10", "\\uff11", "\\uff12", "\\uff13", "\\uff14",
       "\\uff15", "\\uff16", "\\uff17", "\\uff18", "\\uff19",
       "\\U000104a0", "\\U000104a1", "\\U000104a2", "\\U000104a3", "\\U000104a4",
       "\\U000104a5", "\\U000104a6", "\\U000104a7", "\\U000104a8", "\\U000104a9",
       "\\U00010d30", "\\U00010d31", "\\U00010d32", "\\U00010d33", "\\U00010d34",
       "\\U00010d35", "\\U00010d36", "\\U00010d37", "\\U00010d38", "\\U00010d39",
       "\\U00011066", "\\U00011067", "\\U00011068", "\\U00011069", "\\U0001106a",
       "\\U0001106b", "\\U0001106c", "\\U0001106d", "\\U0001106e", "\\U0001106f",
       "\\U000110f0", "\\U000110f1", "\\U000110f2", "\\U000110f3", "\\U000110f4",
       "\\U000110f5", "\\U000110f6", "\\U000110f7", "\\U000110f8", "\\U000110f9",
       "\\U00011136", "\\U00011137", "\\U00011138", "\\U00011139", "\\U0001113a",
       "\\U0001113b", "\\U0001113c", "\\U0001113d", "\\U0001113e", "\\U0001113f",
       "\\U000111d0", "\\U000111d1", "\\U000111d2", "\\U000111d3", "\\U000111d4",
       "\\U000111d5", "\\U000111d6", "\\U000111d7", "\\U000111d8", "\\U000111d9",
       "\\U000112f0", "\\U000112f1", "\\U000112f2", "\\U000112f3", "\\U000112f4",
       "\\U000112f5", "\\U000112f6", "\\U000112f7", "\\U000112f8", "\\U000112f9",
       "\\U00011450", "\\U00011451", "\\U00011452", "\\U00011453", "\\U00011454",
       "\\U00011455", "\\U00011456", "\\U00011457", "\\U00011458", "\\U00011459",
       "\\U000114d0", "\\U000114d1", "\\U000114d2", "\\U000114d3", "\\U000114d4",
       "\\U000114d5", "\\U000114d6", "\\U000114d7", "\\U000114d8", "\\U000114d9",
       "\\U00011650", "\\U00011651", "\\U00011652", "\\U00011653", "\\U00011654",
       "\\U00011655", "\\U00011656", "\\U00011657", "\\U00011658", "\\U00011659",
       "\\U000116c0", "\\U000116c1", "\\U000116c2", "\\U000116c3", "\\U000116c4",
       "\\U000116c5", "\\U000116c6", "\\U000116c7", "\\U000116c8", "\\U000116c9",
       "\\U00011730", "\\U00011731", "\\U00011732", "\\U00011733", "\\U00011734",
       "\\U00011735", "\\U00011736", "\\U00011737", "\\U00011738", "\\U00011739",
       "\\U000118e0", "\\U000118e1", "\\U000118e2", "\\U000118e3", "\\U000118e4",
       "\\U000118e5", "\\U000118e6", "\\U000118e7", "\\U000118e8", "\\U000118e9",
       "\\U00011950", "\\U00011951", "\\U00011952", "\\U00011953", "\\U00011954",
       "\\U00011955", "\\U00011956", "\\U00011957", "\\U00011958", "\\U00011959",
       "\\U00011c50", "\\U00011c51", "\\U00011c52", "\\U00011c53", "\\U00011c54",
       "\\U00011c55", "\\U00011c56", "\\U00011c57", "\\U00011c58", "\\U00011c59",
       "\\U00011d50", "\\U00011d51", "\\U00011d52", "\\U00011d53", "\\U00011d54",
       "\\U00011d55", "\\U00011d56", "\\U00011d57", "\\U00011d58", "\\U00011d59",
       "\\U00011da0", "\\U00011da1", "\\U00011da2", "\\U00011da3", "\\U00011da4",
       "\\U00011da5", "\\U00011da6", "\\U00011da7", "\\U00011da8", "\\U00011da9",
       "\\U00016a60", "\\U00016a61", "\\U00016a62", "\\U00016a63", "\\U00016a64",
       "\\U00016a65", "\\U00016a66", "\\U00016a67", "\\U00016a68", "\\U00016a69",
       "\\U00016ac0", "\\U00016ac1", "\\U00016ac2", "\\U00016ac3", "\\U00016ac4",
       "\\U00016ac5", "\\U00016ac6", "\\U00016ac7", "\\U00016ac8", "\\U00016ac9",
       "\\U00016b50", "\\U00016b51", "\\U00016b52", "\\U00016b53", "\\U00016b54",
       "\\U00016b55", "\\U00016b56", "\\U00016b57", "\\U00016b58", "\\U00016b59",
       "\\U0001d7ce", "\\U0001d7cf", "\\U0001d7d0", "\\U0001d7d1", "\\U0001d7d2",
       "\\U0001d7d3", "\\U0001d7d4", "\\U0001d7d5", "\\U0001d7d6", "\\U0001d7d7",
       "\\U0001d7d8", "\\U0001d7d9", "\\U0001d7da", "\\U0001d7db", "\\U0001d7dc",
       "\\U0001d7dd", "\\U0001d7de", "\\U0001d7df", "\\U0001d7e0", "\\U0001d7e1",
       "\\U0001d7e2", "\\U0001d7e3", "\\U0001d7e4", "\\U0001d7e5", "\\U0001d7e6",
       "\\U0001d7e7", "\\U0001d7e8", "\\U0001d7e9", "\\U0001d7ea", "\\U0001d7eb",
       "\\U0001d7ec", "\\U0001d7ed", "\\U0001d7ee", "\\U0001d7ef", "\\U0001d7f0",
       "\\U0001d7f1", "\\U0001d7f2", "\\U0001d7f3", "\\U0001d7f4", "\\U0001d7f5",
       "\\U0001d7f6", "\\U0001d7f7", "\\U0001d7f8", "\\U0001d7f9", "\\U0001d7fa",
       "\\U0001d7fb", "\\U0001d7fc", "\\U0001d7fd", "\\U0001d7fe", "\\U0001d7ff",
       "\\U0001e140", "\\U0001e141", "\\U0001e142", "\\U0001e143", "\\U0001e144",
       "\\U0001e145", "\\U0001e146", "\\U0001e147", "\\U0001e148", "\\U0001e149",
       "\\U0001e2f0", "\\U0001e2f1", "\\U0001e2f2", "\\U0001e2f3", "\\U0001e2f4",
       "\\U0001e2f5", "\\U0001e2f6", "\\U0001e2f7", "\\U0001e2f8", "\\U0001e2f9",
       "\\U0001e950", "\\U0001e951", "\\U0001e952", "\\U0001e953", "\\U0001e954",
       "\\U0001e955", "\\U0001e956", "\\U0001e957", "\\U0001e958", "\\U0001e959",
       "\\U0001fbf0", "\\U0001fbf1", "\\U0001fbf2", "\\U0001fbf3", "\\U0001fbf4",
       "\\U0001fbf5", "\\U0001fbf6", "\\U0001fbf7", "\\U0001fbf8", "\\U0001fbf9" >>

\* \d matches c
IsDigit(c) == \E i \in DOMAIN DecimalDigits : DecimalDigits[i] = c

\* [lo-hi] matches c, for the ASCII digits lo to hi
InRange(c, lo, hi) == \E v \in lo..hi : DigitChars[v + 1] = c

\* int(c) of a decimal digit
DigitValue(c) ==
    ((CHOOSE i \in DOMAIN DecimalDigits : DecimalDigits[i] = c) - 1) % 10

RECURSIVE ZeroPadded(_, _)
\* n in w decimal digits, as %Y, %m, %d, %H, %M and %S write it
ZeroPadded(n, w) ==
    IF w = 0 THEN <<>>
    ELSE ZeroPadded(n \div 10, w - 1) \o <<DigitChars[(n % 10) + 1]>>

RECURSIVE NumberOf(_)
\* int(s) of a string of digits
NumberOf(s) ==
    IF s = <<>> THEN 0
    ELSE NumberOf(SubSeq(s, 1, Len(s) - 1)) * 10 + DigitValue(s[Len(s)])

RECURSIVE Decimal(_)
\* str(n) for n >= 0
Decimal(n) ==
    IF n < 10 THEN <<DigitChars[n + 1]>>
    ELSE Decimal(n \div 10) \o <<DigitChars[(n % 10) + 1]>>

\* dt.strftime("%Y-%m-%d"); %Y of the C library the interpreter is built on:
\* glibc writes a year before 1000 without leading zeros
strftime_date(dt) ==
    Decimal(dt.year) \o <<"-">> \o ZeroPadded(dt.month, 2)
        \o <<"-">> \o ZeroPadded(dt.day, 2)

\* dt.strftime("%H:%M")
strftime_time(dt) ==
    ZeroPadded(dt.hour, 2) \o <<":">> \o ZeroPadded(dt.minute, 2)

\* dt.strftime("%Y-%m-%d %H:%M:%S")
strftime_timestamp(dt) ==
    strftime_date(dt) \o <<" ">> \o strftime_time(dt)
        \o <<":">> \o ZeroPadded(dt.second, 2)

\* a month before the start of the model, for a usage.json left from earlier
StaleMonthKey == [year |-> 2025, month |-> 11]

\* monthly_limit of config.json: the default and a smaller configured one
ConfigLimits == {500000, 20000}

\* a document on disk: not there, a complete JSON document, or the
\* beginning of one (what open(path, "w") and an unfinished json.dump leave)
Absent == [kind |-> "absent"]
Torn == [kind |-> "torn"]
Doc(d) == [kind |-> "doc", data |-> d]

\* no config is loaded
NoConfig == [google_api_key |-> "", monthly_limit |-> 0]

\* load_config() on the config.json found: without the file, or without a
\* non-empty google_api_key in it, an error dialog and sys.exit(1); json.load
\* raises on a document that is no JSON; otherwise the config, monthly_limit
\* defaulting to 500000
load_config(file) ==
    IF file.kind = "absent"
    THEN [returned |-> FALSE, error |-> "ConfigMissing", cfg |-> NoConfig]
    ELSE IF file.kind = "torn"
    THEN [returned |-> FALSE, error |-> "ConfigUnreadable", cfg |-> NoConfig]
    ELSE LET cfg == file.data
         IN  IF \/ "google_api_key" \notin DOMAIN cfg
                \/ cfg.google_api_key = ""
             THEN [returned |-> FALSE, error |-> "ConfigError", cfg |-> NoConfig]
             ELSE [returned |-> TRUE, error |-> "none",
                   cfg |-> IF "monthly_limit" \in DOMAIN cfg
                           THEN cfg
                           ELSE cfg @@ [monthly_limit |-> 500000]]

\* the config.json documents the program is started on: with a key, with and
\* without monthly_limit; without a key, with an empty key, an empty object;
\* no JSON; no file
ConfigFiles ==
    { Doc([google_api_key |-> "key"]),
      Doc([google_api_key |-> "key", monthly_limit |-> 20000]),
      Doc([monthly_limit |-> 20000]),
      Doc([google_api_key |-> "", monthly_limit |-> 20000]),
      Doc(<<>>),
      Torn,
      Absent }

\* how a save may go: the document is written; open() raises and the file is
\* as before; the write stops after open() truncated the file
SaveOutcomes == {"written", "open_failed", "torn"}

\* open(path, "w") then json.dump(data, f): the file afterwards
WriteFile(file, data, how) ==
    CASE how = "written" -> Doc(data)
      [] how = "open_failed" -> file
      [] how = "torn" -> Torn

save_usage(file, data, how) == WriteFile(file, data, how)

save_history(file, data, how) == WriteFile(file, data, how)

\* a variant of load_usage that advances month_key and keeps used_chars
load_usage_keeps_used(file, now, monthly_limit, how) ==
    LET current_month_key == month_key_of(now)
        fresh == [month_key |-> current_month_key, used_chars |-> 0,
                  monthly_limit |-> monthly_limit]
        data == [file.data EXCEPT !.month_key = current_month_key,
                                  !.monthly_limit = monthly_limit]
    IN  CASE file.kind = "absent" ->
               [returned |-> how = "written", data |-> fresh,
                file |-> save_usage(file, fresh, how)]
          [] file.kind = "torn" ->
               [returned |-> FALSE, data |-> fresh, file |-> file]
          [] file.kind = "doc" ->
               [returned |-> how = "written", data |-> data,
                file |-> save_usage(file, data, how)]

\* a variant of load_usage that keeps the monthly_limit found in usage.json
load_usage_keeps_limit(file, now, monthly_limit, how) ==
    LET current_month_key == month_key_of(now)
        fresh == [month_key |-> current_month_key, used_chars |-> 0,
                  monthly_limit |-> monthly_limit]
        read == file.data
        data == IF read.month_key # current_month_key
                THEN [read EXCEPT !.month_key = current_month_key,
                                  !.used_chars = 0]
                ELSE read
    IN  CASE file.kind = "absent" ->
               [returned |-> how = "written", data |-> fresh,
                file |-> save_usage(file, fresh, how)]
          [] file.kind = "torn" ->
               [returned |-> FALSE, data |-> fresh, file |-> file]
          [] file.kind = "doc" ->
               [returned |-> how = "written", data |-> data,
                file |-> save_usage(file, data, how)]

\* load_usage(monthly_limit) at time now with usage.json = file; how is the
\* way its save goes.  returned = FALSE: an exception left load_usage
\* (json.load on a torn document, or the save).
load_usage(file, now, monthly_limit, how) ==
    LET current_month_key == month_key_of(now)
        fresh == [month_key |-> current_month_key, used_chars |-> 0,
                  monthly_limit |-> monthly_limit]
        read == file.data
        reset == IF read.month_key # current_month_key
                 THEN [read EXCEPT !.month_key = current_month_key,
                                   !.used_chars = 0]
                 ELSE read
        data == [reset EXCEPT !.monthly_limit = monthly_limit]
    IN  CASE file.kind = "absent" ->
               [returned |-> how = "written", data |-> fresh,
                file |-> save_usage(file, fresh, how)]
          [] file.kind = "torn" ->
               [returned |-> FALSE, data |-> fresh, file |-> file]
          [] file.kind = "doc" ->
               [returned |-> how = "written", data |-> data,
                file |-> save_usage(file, data, how)]

\* a variant of load_history that starts every session with an empty list
load_history_forgets(file, how) ==
    LET empty == [entries |-> <<>>]
    IN  CASE file.kind = "absent" ->
               [returned |-> how = "written", data |-> empty,
                file |-> save_history(file, empty, how)]
          [] file.kind = "torn" ->
               [returned |-> FALSE, data |-> empty, file |-> file]
          [] file.kind = "doc" ->
               [returned |-> TRUE, data |-> empty, file |-> file]

\* load_history() with history.json = file; a document without "entries"
\* gets an empty list
load_history(file, how) ==
    LET empty == [entries |-> <<>>]
    IN  CASE file.kind = "absent" ->
               [returned |-> how = "written", data |-> empty,
                file |-> save_history(file, empty, how)]
          [] file.kind = "torn" ->
               [returned |-> FALSE, data |-> empty, file |-> file]
          [] file.kind = "doc" ->
               [returned |-> TRUE,
                data |-> IF "entries" \in DOMAIN file.data
                         THEN file.data
                         ELSE file.data @@ empty,
                file |-> file]

\* the most entries history.json keeps
HISTORY_CAP == 500

\* a variant of insert_entry that adds the entry at the end of the list
insert_entry_appends(data, entry) ==
    LET all == Append(data.entries, entry)
    IN  [data EXCEPT !.entries =
            IF Len(all) > HISTORY_CAP THEN SubSeq(all, 1, HISTORY_CAP) ELSE all]

\* a variant of insert_entry that cuts the list to its last 500
insert_entry_keeps_tail(data, entry) ==
    LET all == <<entry>> \o data.entries
    IN  [data EXCEPT !.entries =
            IF Len(all) > HISTORY_CAP
            THEN SubSeq(all, Len(all) - HISTORY_CAP + 1, Len(all))
            ELSE all]

\* self.history_data["entries"].insert(0, entry), cut to the first 500
insert_entry(data, entry) ==
    LET all == <<entry>> \o data.entries
    IN  [data EXCEPT !.entries =
            IF Len(all) > HISTORY_CAP THEN SubSeq(all, 1, HISTORY_CAP) ELSE all]

\* an entry of an earlier session, found in history.json at startup
OldEntry ==
    [timestamp |-> strftime_timestamp([year |-> 2025, month |-> 11, day |-> 1,
                                       hour |-> 9, minute |-> 30, second |-> 0]),
     source_lang |-> th_code, target_lang |-> en_code, chars |-> 2,
     source_text |-> <<Run("k", 2)>>,
     translated_text |-> <<Run("o", 1), Run("k", 1)>>]

\* used_chars found in usage.json at startup
InitialUsed == {490000}

\* what is on disk at Init: nothing (a fresh install), or the documents an
\* earlier session left, of this month or an earlier one, written under
\* either limit
InitialFiles ==
    { [usage |-> Absent, history |-> Absent] } \cup
    { [usage |-> Doc([month_key |-> mk, used_chars |-> u, monthly_limit |-> l]),
       history |-> Doc([entries |-> <<OldEntry>>])] :
        mk \in {month_key_of(StartClock), StaleMonthKey},
        u \in InitialUsed, l \in ConfigLimits }

\* the i-th entry of a history.json found at startup: a text of i characters
StoredEntry(i) ==
    [OldEntry EXCEPT !.chars = i, !.source_text = <<Run("k", i)>>]

\* a history.json with n entries
StoredHistory(n) == Doc([entries |-> [i \in 1..n |-> StoredEntry(i)]])

\* the history.json documents a start may find: lists around the cap of 500
\* entries, and a document without "entries"
HistoryFiles ==
    { StoredHistory(n) : n \in {0, 1, HISTORY_CAP - 1, HISTORY_CAP, HISTORY_CAP + 1} }
    \cup { Doc(<<>>) }

-----------------------------------------------------------------------------
(* TranslatorApp: state of a process that is not running, and of translate() *)

NoLedger ==
    [month_key |-> [year |-> 0, month |-> 0], used_chars |-> 0,
     monthly_limit |-> 0]

NoHistory == [entries |-> <<>>]

NoClock ==
    [year |-> 0, month |-> 0, day |-> 0, hour |-> 0, minute |-> 0, second |-> 0]

\* the locals of translate(); submitted is the content of the input box when
\* Translate was pressed, text what line 573 makes of it; outcome is how
\* google_translate ended,
\* precheck_at and commit_at note the clock when the ledger was read for
\* the limit check and when used_chars was assigned, precheck_key and
\* commit_key the ledger's month_key at these moments
NoReq ==
    [submitted |-> <<>>, text |-> <<>>, source_lang |-> <<>>,
     target_lang |-> <<>>, char_count |-> 0, used |-> 0, limit |-> 0, upcoming_total |-> 0,
     outcome |-> "none", translated |-> <<>>, precheck_at |-> NoClock, commit_at |-> NoClock,
     precheck_key |-> NoLedger.month_key, commit_key |-> NoLedger.month_key]

NoLoad ==
    [before |-> Absent, now |-> NoClock, monthly_limit |-> 0,
     data |-> NoLedger, after |-> Absent,
     history_before |-> Absent, history |-> NoHistory]

Snapshot ==
    [usage_data |-> usage_data, history_data |-> history_data,
     usage_file |-> usage_file, history_file |-> history_file,
     from_combo |-> from_combo, to_combo |-> to_combo]

NoSnapshot ==
    [usage_data |-> NoLedger, history_data |-> NoHistory,
     usage_file |-> Absent, history_file |-> Absent,
     from_combo |-> <<>>, to_combo |-> <<>>]

\* the labels before the window exists
NoLabel ==
    [used |-> 0, limit |-> 0, remaining |-> 0,
     next_reset |-> [year |-> 0, month |-> 0, day |-> 0]]

\* update_usage_labels: "Usage this month: used / limit chars (Remaining:
\* remaining)" and "Resets around: next_reset"
update_usage_labels(ledger) ==
    LET used == ledger.used_chars
        limit == ledger.monthly_limit
        remaining == IF limit - used > 0 THEN limit - used ELSE 0
    IN  [used |-> used, limit |-> limit, remaining |-> remaining,
         next_reset |->
            [year |-> ledger.month_key.year +
                      (IF ledger.month_key.month = 12 THEN 1 ELSE 0),
             month |-> IF ledger.month_key.month = 12
                       THEN 1 ELSE ledger.month_key.month + 1,
             day |-> 1]]

\* the threshold of the "Large text" dialog
limit_heavy == 5000

\* the dialog a pc waits in
GateOf(p) ==
    CASE p = "AwaitSame" -> "same"
      [] p = "AwaitLarge" -> "large"
      [] p = "AwaitQuota" -> "quota"

AwaitPcs == {"AwaitSame", "AwaitLarge", "AwaitQuota"}

\* a variant of FromQuota that asks also when the limit is reached exactly
FromQuota_at_limit(r, ledger, now) ==
    LET used == ledger.used_chars
        limit == ledger.monthly_limit
        r3 == [r EXCEPT !.used = used, !.limit = limit,
                        !.upcoming_total = used + r.char_count,
                        !.precheck_at = now,
                        !.precheck_key = ledger.month_key]
    IN  IF r3.upcoming_total >= limit
        THEN [pc |-> "AwaitQuota", req |-> r3]
        ELSE [pc |-> "Translating", req |-> r3]

\* lines 601-611: read the ledger, then the "Limit warning" dialog or on to
\* the call
FromQuota(r, ledger, now) ==
    LET used == ledger.used_chars
        limit == ledger.monthly_limit
        r3 == [r EXCEPT !.used = used, !.limit = limit,
                        !.upcoming_total = used + r.char_count,
                        !.precheck_at = now,
                        !.precheck_key = ledger.month_key]
    IN  IF r3.upcoming_total > limit
        THEN [pc |-> "AwaitQuota", req |-> r3]
        ELSE [pc |-> "Translating", req |-> r3]

\* a variant of FromLarge that asks only above 5000 characters
FromLarge_above(r, ledger, now) ==
    LET r2 == [r EXCEPT !.char_count = TextLen(r.text)]
    IN  IF r2.char_count > limit_heavy
        THEN [pc |-> "AwaitLarge", req |-> r2]
        ELSE FromQuota(r2, ledger, now)

\* lines 590-599: char_count, then the "Large text" dialog or on
FromLarge(r, ledger, now) ==
    LET r2 == [r EXCEPT !.char_count = TextLen(r.text)]
    IN  IF r2.char_count >= limit_heavy
        THEN [pc |-> "AwaitLarge", req |-> r2]
        ELSE FromQuota(r2, ledger, now)

\* a variant of FromSame without the "Same language" dialog
FromSame_skips(r, ledger, now) == FromLarge(r, ledger, now)

\* lines 583-588: the "Same language" dialog or on
FromSame(r, ledger, now) ==
    IF r.source_lang = r.target_lang
    THEN [pc |-> "AwaitSame", req |-> r]
    ELSE FromLarge(r, ledger, now)

\* translate() runs on to the point `to`: a dialog is raised, or the call of
\* google_translate is next (lines 613-619)
Goto(to, answered) ==
    /\ pc' = to.pc
    /\ req' = to.req
    /\ gates' = IF to.pc \in AwaitPcs
                THEN Append(answered, [gate |-> GateOf(to.pc), answer |-> "pending"])
                ELSE answered

\* the last dialog of the invocation gets its answer
Answered(yes) ==
    [gates EXCEPT ![Len(gates)].answer = IF yes THEN "yes" ELSE "no"]

\* no function is applied on its own
NoCall == [fn |-> "none"]

-----------------------------------------------------------------------------
(* Init *)

Init ==
    /\ clock = StartClock
    /\ config_file \in ConfigFiles
    /\ config_data = NoConfig
    /\ \E files \in InitialFiles :
          /\ usage_file = files.usage
          /\ history_file = files.history
    /\ app = "off"
    /\ usage_data = NoLedger
    /\ history_data = NoHistory
    /\ from_combo = <<>>
    /\ to_combo = <<>>
    /\ last_from_valid = <<>>
    /\ last_to_valid = <<>>
    /\ pc = "Idle"
    /\ req = NoReq
    /\ result = "none"
    /\ gates = <<>>
    /\ calls = 0
    /\ pre = NoSnapshot
    /\ loaded = NoLoad
    /\ commits = 0
    /\ usage_label = NoLabel
    /\ call = NoCall
    /\ ret = <<>>

-----------------------------------------------------------------------------
(* The clock *)

Ticks(now) == (now.year * 12 + now.month) * 2 + (IF now.day >= 15 THEN 1 ELSE 0)

\* where the program waits: for an event, for the answer to a dialog, for
\* the translation service
WaitingPcs == {"Idle", "AwaitSame", "AwaitLarge", "AwaitQuota", "Translating"}

\* half a month passes while the program is not running or waits
Tick ==
    /\ Ticks(clock) - Ticks(StartClock) < MaxTicks
    /\ pc \in WaitingPcs
    /\ clock' = NextClock(clock)
    /\ UNCHANGED <<config_data, usage_file, history_file, app, usage_data,
                   history_data, from_combo, to_combo, last_from_valid,
                   last_to_valid, pc, req, result, gates, calls,
                   pre, loaded, commits>>
    /\ UNCHANGED <<config_file, usage_label, call, ret>>

-----------------------------------------------------------------------------
(* Start and end of the process *)

\* the ways the save of a load may go: load_usage saves unless json.load
\* raised, load_history saves when there is no document
UsageSaves == IF usage_file.kind = "torn" THEN {"written"} ELSE SaveOutcomes

HistorySaves == IF history_file.kind = "absent" THEN SaveOutcomes ELSE {"written"}

\* TranslatorApp(cfg): __init__ keeps the config, loads the ledger, then the
\* history, then sets the combo boxes; an exception of either load ends the
\* process
TranslatorApp(cfg) ==
    /\ \E uhow \in UsageSaves, hhow \in HistorySaves :
        LET u == load_usage(usage_file, clock, cfg.monthly_limit, uhow)
            h == load_history(history_file, hhow)
            up == u.returned /\ h.returned
            lang_display_list == build_lang_display_list
        IN  /\ usage_file' = u.file
            /\ history_file' = IF u.returned THEN h.file ELSE history_file
            /\ loaded' = IF u.returned
                         THEN [before |-> usage_file, now |-> clock,
                               monthly_limit |-> cfg.monthly_limit,
                               data |-> u.data, after |-> u.file,
                               history_before |->
                                   IF h.returned THEN history_file ELSE Absent,
                               history |->
                                   IF h.returned THEN h.data ELSE NoHistory]
                         ELSE NoLoad
            /\ app' = IF up THEN "running" ELSE "off"
            /\ config_data' = IF up THEN cfg ELSE NoConfig
            /\ usage_data' = IF up THEN u.data ELSE NoLedger
            /\ history_data' = IF up THEN h.data ELSE NoHistory
            /\ last_from_valid' =
                 IF up THEN get_display_for_code(en_code, lang_display_list) ELSE <<>>
            /\ last_to_valid' =
                 IF up THEN get_display_for_code(th_code, lang_display_list) ELSE <<>>
            /\ from_combo' = last_from_valid'
            /\ to_combo' = last_to_valid'
    /\ pc' = IF app' = "running" THEN "Started" ELSE "Idle"
    /\ req' = NoReq
    /\ result' = "none"
    /\ gates' = <<>>
    /\ calls' = 0
    /\ pre' = NoSnapshot
    /\ usage_label' = IF app' = "running"
                      THEN update_usage_labels(usage_data')
                      ELSE NoLabel
    /\ UNCHANGED <<clock, commits>>
    /\ UNCHANGED <<config_file, call, ret>>

\* main(): load_config() shows its error and ends the process before any
\* document is read, or returns the config the window is made with
main ==
    /\ app = "off"
    /\ LET c == load_config(config_file)
       IN  IF c.returned
           THEN TranslatorApp(c.cfg)
           ELSE /\ result' = c.error
                /\ UNCHANGED <<clock, config_data, usage_file, history_file,
                               app, usage_data, history_data, from_combo,
                               to_combo, last_from_valid, last_to_valid, pc,
                               req, gates, calls, pre, loaded, commits>>
                /\ UNCHANGED <<config_file, usage_label, call, ret>>

\* app.mainloop() waits for the next event: __init__ or translate() has
\* returned and its locals are gone
mainloop ==
    /\ app = "running"
    /\ pc \in {"Started", "Returned"}
    /\ pc' = "Idle"
    /\ req' = NoReq
    /\ result' = "none"
    /\ gates' = <<>>
    /\ calls' = 0
    /\ pre' = NoSnapshot
    /\ loaded' = NoLoad
    /\ UNCHANGED <<clock, config_data, usage_file, history_file, app,
                   usage_data, history_data, from_combo, to_combo,
                   last_from_valid, last_to_valid, commits>>
    /\ UNCHANGED <<config_file, usage_label, call, ret>>

\* the process goes away and with it all it held in memory; the documents
\* stay as they are
ProcessEnds ==
    /\ app' = "off"
    /\ usage_data' = NoLedger
    /\ history_data' = NoHistory
    /\ from_combo' = <<>>
    /\ to_combo' = <<>>
    /\ last_from_valid' = <<>>
    /\ last_to_valid' = <<>>
    /\ pc' = "Idle"
    /\ req' = NoReq
    /\ result' = "none"
    /\ gates' = <<>>
    /\ calls' = 0
    /\ pre' = NoSnapshot
    /\ loaded' = NoLoad
    /\ usage_label' = NoLabel
    /\ config_data' = NoConfig
    /\ UNCHANGED <<clock, usage_file, history_file, commits>>
    /\ UNCHANGED <<config_file, call, ret>>

\* on_close, confirmed: the window is destroyed and mainloop returns
on_close ==
    /\ app = "running"
    /\ pc = "Idle"
    /\ ProcessEnds

\* the process is killed or the machine stops, at any point of translate()
Crash ==
    /\ app = "running"
    /\ ProcessEnds

-----------------------------------------------------------------------------
(* The combo boxes *)

\* the items the user picks from the drop-downs in the model: English, Thai
\* and the first separator
SelectItems ==
    { build_lang_display_list[i] : i \in 1..3 }

\* a variant of on_from_changed that takes whatever was picked
on_from_changed_accepts(value) ==
    /\ app = "running"
    /\ pc = "Idle"
    /\ from_combo' = value
    /\ last_from_valid' = value
    /\ UNCHANGED <<clock, config_data, usage_file, history_file, app,
                   usage_data, history_data, to_combo, last_to_valid,
                   pc, req, result, gates, calls, pre, loaded,
                   commits>>
    /\ UNCHANGED <<config_file, usage_label, call, ret>>

\* the user picks value in the "From" box: the box shows it, then the
\* handler runs
on_from_changed(value) ==
    /\ app = "running"
    /\ pc = "Idle"
    /\ IF is_separator_item(value)
       THEN /\ from_combo' = last_from_valid
            /\ UNCHANGED last_from_valid
       ELSE /\ from_combo' = value
            /\ last_from_valid' = value
    /\ UNCHANGED <<clock, config_data, usage_file, history_file, app,
                   usage_data, history_data, to_combo, last_to_valid,
                   pc, req, result, gates, calls, pre, loaded,
                   commits>>
    /\ UNCHANGED <<config_file, usage_label, call, ret>>

on_to_changed(value) ==
    /\ app = "running"
    /\ pc = "Idle"
    /\ IF is_separator_item(value)
       THEN /\ to_combo' = last_to_valid
            /\ UNCHANGED last_to_valid
       ELSE /\ to_combo' = value
            /\ last_to_valid' = value
    /\ UNCHANGED <<clock, config_data, usage_file, history_file, app,
                   usage_data, history_data, from_combo, last_from_valid,
                   pc, req, result, gates, calls, pre, loaded,
                   commits>>
    /\ UNCHANGED <<config_file, usage_label, call, ret>>

swap_languages ==
    /\ app = "running"
    /\ pc = "Idle"
    /\ LET from_val == from_combo
           to_val == to_combo
       IN  /\ from_combo' = to_val
           /\ to_combo' = from_val
           /\ last_from_valid' =
                IF ~is_separator_item(to_val) THEN to_val ELSE last_from_valid
           /\ last_to_valid' =
                IF ~is_separator_item(from_val) THEN from_val ELSE last_to_valid
    /\ UNCHANGED <<clock, config_data, usage_file, history_file, app,
                   usage_data, history_data, pc, req, result,
                   gates, calls, pre, loaded, commits>>
    /\ UNCHANGED <<config_file, usage_label, call, ret>>

-----------------------------------------------------------------------------
(* translate() *)

\* what the translation service answers to a successful request
\* what google_translate returns in the model: "sawatdi"
Translations ==
    { <<Run("s", 1), Run("a", 1), Run("w", 1), Run("a", 1), Run("t", 1),
        Run("d", 1), Run("i", 1)>> }

\* a variant of translate that takes the text as it is in the input box
translate_unstripped(t) ==
    /\ app = "running"
    /\ pc = "Idle"
    /\ commits < MaxCommits
    /\ pre' = Snapshot
    /\ calls' = 0
    /\ LET text == t
           r == [NoReq EXCEPT !.submitted = t,
                              !.text = text,
                              !.source_lang = parse_lang(from_combo),
                              !.target_lang = parse_lang(to_combo)]
       IN  IF text = <<>>
           THEN /\ pc' = "Returned"
                /\ result' = "EmptyInput"
                /\ req' = [NoReq EXCEPT !.submitted = t]
                /\ gates' = <<>>
           ELSE /\ result' = "none"
                /\ Goto(FromSame(r, usage_data, clock), <<>>)
    /\ UNCHANGED <<clock, config_data, usage_file, history_file, app,
                   usage_data, history_data, from_combo, to_combo,
                   last_from_valid, last_to_valid, loaded, commits>>
    /\ UNCHANGED <<config_file, usage_label, call, ret>>

\* lines 572-588 and on: the Translate button with text t in the input box
translate(t) ==
    /\ app = "running"
    /\ pc = "Idle"
    /\ commits < MaxCommits
    /\ pre' = Snapshot
    /\ calls' = 0
    /\ LET text == TextStrip(t)
           r == [NoReq EXCEPT !.submitted = t,
                              !.text = text,
                              !.source_lang = parse_lang(from_combo),
                              !.target_lang = parse_lang(to_combo)]
       IN  IF text = <<>>
           THEN /\ pc' = "Returned"
                /\ result' = "EmptyInput"
                /\ req' = [NoReq EXCEPT !.submitted = t]
                /\ gates' = <<>>
           ELSE /\ result' = "none"
                /\ Goto(FromSame(r, usage_data, clock), <<>>)
    /\ UNCHANGED <<clock, config_data, usage_file, history_file, app,
                   usage_data, history_data, from_combo, to_combo,
                   last_from_valid, last_to_valid, loaded, commits>>
    /\ UNCHANGED <<config_file, usage_label, call, ret>>

\* a variant of Declined that goes on to the call whatever the answer
Declined_continues ==
    /\ pc' = "Translating"
    /\ gates' = Answered(FALSE)
    /\ UNCHANGED <<req, result>>

\* a dialog is answered No: translate() returns
Declined ==
    /\ pc' = "Returned"
    /\ result' = "Cancelled"
    /\ gates' = Answered(FALSE)
    /\ UNCHANGED req

\* the answer to "Same language"
answer_same(yes) ==
    /\ app = "running"
    /\ pc = "AwaitSame"
    /\ IF yes
       THEN /\ Goto(FromLarge(req, usage_data, clock), Answered(TRUE))
            /\ UNCHANGED result
       ELSE Declined
    /\ UNCHANGED <<clock, config_data, usage_file, history_file, app,
                   usage_data, history_data, from_combo, to_combo,
                   last_from_valid, last_to_valid, calls, pre, loaded,
                   commits>>
    /\ UNCHANGED <<config_file, usage_label, call, ret>>

\* the answer to "Large text"
answer_large(yes) ==
    /\ app = "running"
    /\ pc = "AwaitLarge"
    /\ IF yes
       THEN /\ Goto(FromQuota(req, usage_data, clock), Answered(TRUE))
            /\ UNCHANGED result
       ELSE Declined
    /\ UNCHANGED <<clock, config_data, usage_file, history_file, app,
                   usage_data, history_data, from_combo, to_combo,
                   last_from_valid, last_to_valid, calls, pre, loaded,
                   commits>>
    /\ UNCHANGED <<config_file, usage_label, call, ret>>

\* the answer to "Limit warning"
answer_quota(yes) ==
    /\ app = "running"
    /\ pc = "AwaitQuota"
    /\ IF yes
       THEN /\ Goto([pc |-> "Translating", req |-> req], Answered(TRUE))
            /\ UNCHANGED result
       ELSE Declined
    /\ UNCHANGED <<clock, config_data, usage_file, history_file, app,
                   usage_data, history_data, from_combo, to_combo,
                   last_from_valid, last_to_valid, calls, pre, loaded,
                   commits>>
    /\ UNCHANGED <<config_file, usage_label, call, ret>>

\* a variant of translate_failed that counts the characters of the failed
\* request
translate_failed_commits(kind) ==
    /\ pc' = "Returned"
    /\ result' = IF kind = "http_error" THEN "HTTPError" ELSE "Error"
    /\ req' = [req EXCEPT !.outcome = kind]
    /\ usage_data' = [usage_data EXCEPT !.used_chars = req.upcoming_total]
    /\ usage_file' = save_usage(usage_file, usage_data', "written")
    /\ UNCHANGED <<history_data, history_file, commits>>

\* a variant of translate_failed that repeats the request
translate_failed_retries(kind) ==
    /\ pc' = "Translating"
    /\ req' = [req EXCEPT !.outcome = "none"]
    /\ UNCHANGED <<result, usage_data, usage_file, history_data, history_file,
                   commits>>

\* lines 620-627: google_translate raised; the error is shown and
\* translate() returns
translate_failed(kind) ==
    /\ pc' = "Returned"
    /\ result' = IF kind = "http_error" THEN "HTTPError" ELSE "Error"
    /\ req' = [req EXCEPT !.outcome = kind]
    /\ UNCHANGED <<usage_data, usage_file, history_data, history_file,
                   commits>>

\* lines 629-632: google_translate returned; the translation is shown and
\* used_chars is assigned
translate_returned(translated) ==
    /\ usage_data' = [usage_data EXCEPT !.used_chars = req.upcoming_total]
    /\ req' = [req EXCEPT !.outcome = "ok",
                          !.translated = translated, !.commit_at = clock,
                          !.commit_key = usage_data.month_key]
    /\ pc' = "SaveUsage"
    /\ commits' = commits + 1
    /\ UNCHANGED <<result, usage_file, history_data, history_file>>

\* line 619 with its handlers: the one call of the translation service,
\* which returns a translation or raises requests.HTTPError or another
\* exception
google_translate ==
    /\ app = "running"
    /\ pc = "Translating"
    /\ calls' = calls + 1
    /\ \/ \E translated \in Translations : translate_returned(translated)
       \/ \E kind \in {"http_error", "error"} : translate_failed(kind)
    /\ UNCHANGED <<clock, config_data, app, from_combo, to_combo,
                   last_from_valid, last_to_valid, gates, pre, loaded>>
    /\ UNCHANGED <<config_file, usage_label, call, ret>>

\* lines 633-634: save_usage(self.usage_data), then the labels are renewed;
\* an exception of the save leaves translate()
translate_save_usage(how) ==
    /\ app = "running"
    /\ pc = "SaveUsage"
    /\ usage_file' = save_usage(usage_file, usage_data, how)
    /\ IF how = "written"
       THEN /\ pc' = "Record"
            /\ usage_label' = update_usage_labels(usage_data)
            /\ UNCHANGED result
       ELSE /\ pc' = "Returned"
            /\ result' = "Exception"
            /\ UNCHANGED usage_label
    /\ UNCHANGED <<clock, config_data, history_file, app, usage_data,
                   history_data, from_combo, to_combo, last_from_valid,
                   last_to_valid, req, gates, calls, pre,
                   loaded, commits>>
    /\ UNCHANGED <<config_file, call, ret>>

\* lines 636-643: the entry of this translation
history_entry(r, now) ==
    [timestamp |-> strftime_timestamp(now), source_lang |-> r.source_lang,
     target_lang |-> r.target_lang, chars |-> r.char_count,
     source_text |-> r.text, translated_text |-> r.translated]

\* lines 634-644: the entry is built and append_history_entry inserts it,
\* cuts the list and saves it
append_history_entry(how) ==
    /\ app = "running"
    /\ pc = "Record"
    /\ history_data' = insert_entry(history_data, history_entry(req, clock))
    /\ history_file' = save_history(history_file, history_data', how)
    /\ pc' = "Returned"
    /\ result' = IF how = "written" THEN "Succeeded" ELSE "Exception"
    /\ UNCHANGED <<clock, config_data, usage_file, app, usage_data,
                   from_combo, to_combo, last_from_valid, last_to_valid,
                   req, gates, calls, pre, loaded, commits>>
    /\ UNCHANGED <<config_file, usage_label, call, ret>>

-----------------------------------------------------------------------------
(* The specification *)

Next ==
    \/ Tick
    \/ main
    \/ mainloop
    \/ on_close
    \/ Crash
    \/ \E value \in SelectItems : on_from_changed(value)
    \/ \E value \in SelectItems : on_to_changed(value)
    \/ swap_languages
    \/ \E t \in TextInputs : translate(t)
    \/ \E yes \in BOOLEAN : answer_same(yes)
    \/ \E yes \in BOOLEAN : answer_large(yes)
    \/ \E yes \in BOOLEAN : answer_quota(yes)
    \/ google_translate
    \/ \E how \in SaveOutcomes : translate_save_usage(how)
    \/ \E how \in SaveOutcomes : append_history_entry(how)

Spec == Init /\ [][Next]_vars

\* the same program started on the history.json documents of HistoryFiles,
\* with a ledger of the current month, translating "Hello" from en to th
InitHistory ==
    /\ clock = StartClock
    /\ config_file = Doc([google_api_key |-> "key"])
    /\ config_data = NoConfig
    /\ usage_file = Doc([month_key |-> month_key_of(StartClock),
                         used_chars |-> 0,
                         monthly_limit |-> load_config(config_file).cfg.monthly_limit])
    /\ history_file \in HistoryFiles
    /\ app = "off"
    /\ usage_data = NoLedger
    /\ history_data = NoHistory
    /\ from_combo = <<>>
    /\ to_combo = <<>>
    /\ last_from_valid = <<>>
    /\ last_to_valid = <<>>
    /\ pc = "Idle"
    /\ req = NoReq
    /\ result = "none"
    /\ gates = <<>>
    /\ calls = 0
    /\ pre = NoSnapshot
    /\ loaded = NoLoad
    /\ commits = 0
    /\ usage_label = NoLabel
    /\ call = NoCall
    /\ ret = <<>>

NextHistory ==
    \/ main
    \/ mainloop
    \/ on_close
    \/ translate(Hello)
    \/ google_translate
    \/ \E how \in SaveOutcomes : translate_save_usage(how)
    \/ \E how \in SaveOutcomes : append_history_entry(how)

SpecHistory == InitHistory /\ [][NextHistory]_vars

-----------------------------------------------------------------------------
(* The helpers, applied on their own to arguments of bounded size *)

\* s[k:]
Drop(s, k) == IF k >= Len(s) THEN <<>> ELSE SubSeq(s, k + 1, Len(s))

\* s[i - 1:i]: the i-th character, "" when there is none
At(s, i) == IF i \in 1..Len(s) THEN s[i] ELSE ""

RECURSIVE DigitRun(_)
\* the digits s begins with
DigitRun(s) ==
    IF s # <<>> /\ IsDigit(Head(s)) THEN <<Head(s)>> \o DigitRun(Tail(s)) ELSE <<>>

RECURSIVE WhitespaceRun(_)
\* the whitespace s begins with
WhitespaceRun(s) ==
    IF s # <<>> /\ Head(s) \in Whitespace
    THEN <<Head(s)>> \o WhitespaceRun(Tail(s))
    ELSE <<>>

\* ts.split(" ")[0]
RECURSIVE BeforeFirst(_, _)
BeforeFirst(s, c) ==
    IF s = <<>> \/ Head(s) = c THEN <<>> ELSE <<Head(s)>> \o BeforeFirst(Tail(s), c)

\* calendar.monthrange(year, month)[1]
DaysInMonth(year, month) ==
    IF month \in {4, 6, 9, 11} THEN 30
    ELSE IF month # 2 THEN 31
    ELSE IF year % 4 = 0 /\ (year % 100 # 0 \/ year % 400 = 0) THEN 29
    ELSE 28

\* the regular expressions _strptime makes of the directives, each on a
\* whole field f: \d is a decimal digit of any script, a range is of ASCII
\* digits.  %Y: \d\d\d\d
MatchesY(f) == Len(f) = 4 /\ \A i \in 1..4 : IsDigit(f[i])

\* %m: 1[0-2]|0[1-9]|[1-9]
Matches_m(f) ==
    \/ Len(f) = 2 /\ f[1] = "1" /\ InRange(f[2], 0, 2)
    \/ Len(f) = 2 /\ f[1] = "0" /\ InRange(f[2], 1, 9)
    \/ Len(f) = 1 /\ InRange(f[1], 1, 9)

\* %d: 3[0-1]|[1-2]\d|0[1-9]|[1-9]| [1-9], the blank of the last not in f
Matches_d(f) ==
    \/ Len(f) = 2 /\ f[1] = "3" /\ InRange(f[2], 0, 1)
    \/ Len(f) = 2 /\ InRange(f[1], 1, 2) /\ IsDigit(f[2])
    \/ Len(f) = 2 /\ f[1] = "0" /\ InRange(f[2], 1, 9)
    \/ Len(f) = 1 /\ InRange(f[1], 1, 9)

\* %H: 2[0-3]|[0-1]\d|\d
MatchesH(f) ==
    \/ Len(f) = 2 /\ f[1] = "2" /\ InRange(f[2], 0, 3)
    \/ Len(f) = 2 /\ InRange(f[1], 0, 1) /\ IsDigit(f[2])
    \/ Len(f) = 1 /\ IsDigit(f[1])

\* %M: [0-5]\d|\d
MatchesM(f) ==
    \/ Len(f) = 2 /\ InRange(f[1], 0, 5) /\ IsDigit(f[2])
    \/ Len(f) = 1 /\ IsDigit(f[1])

\* %S: 6[0-1]|[0-5]\d|\d
MatchesS(f) ==
    \/ Len(f) = 2 /\ f[1] = "6" /\ InRange(f[2], 0, 1)
    \/ MatchesM(f)

\* datetime.datetime.strptime(ts, "%Y-%m-%d %H:%M:%S"): ok is FALSE where it
\* raises. A field is the digits up to the next separator and must match
\* the expression of its directive (%d also a blank and one digit); the
\* blank of the format takes one or more whitespace characters; nothing may
\* follow the seconds, and the fields must make a date and a time that exist
strptime(ts) ==
    LET Y == DigitRun(ts)
        p1 == Len(Y) + 1
        m == DigitRun(Drop(ts, p1))
        p2 == p1 + Len(m) + 1
        lead == IF At(ts, p2 + 1) = " " /\ IsDigit(At(ts, p2 + 2)) THEN 1 ELSE 0
        d == DigitRun(Drop(ts, p2 + lead))
        p3 == p2 + lead + Len(d)
        ws == WhitespaceRun(Drop(ts, p3))
        p4 == p3 + Len(ws)
        H == DigitRun(Drop(ts, p4))
        p5 == p4 + Len(H) + 1
        M == DigitRun(Drop(ts, p5))
        p6 == p5 + Len(M) + 1
        S == Drop(ts, p6)
        ok == /\ MatchesY(Y) /\ NumberOf(Y) >= 1
              /\ At(ts, p1) = "-"
              /\ Matches_m(m)
              /\ At(ts, p2) = "-"
              /\ Matches_d(d) /\ (lead = 1 => Len(d) = 1)
              /\ NumberOf(d) <= DaysInMonth(NumberOf(Y), NumberOf(m))
              /\ Len(ws) >= 1
              /\ MatchesH(H)
              /\ At(ts, p5) = ":"
              /\ MatchesM(M)
              /\ At(ts, p6) = ":"
              /\ MatchesS(S) /\ NumberOf(S) <= 59
    IN  IF ok
        THEN [ok |-> TRUE, year |-> NumberOf(Y), month |-> NumberOf(m),
              day |-> NumberOf(d), hour |-> NumberOf(H),
              minute |-> NumberOf(M), second |-> NumberOf(S)]
        ELSE [ok |-> FALSE, year |-> 0, month |-> 0, day |-> 0, hour |-> 0,
              minute |-> 0, second |-> 0]

\* lines 547-553: date_str of an entry's timestamp
date_str_of(ts) ==
    LET dt == strptime(ts)
    IN  IF dt.ok THEN strftime_date(dt)
        ELSE IF Contains(ts, " ") THEN BeforeFirst(ts, " ") ELSE ts

\* lines 547-553: time_str of an entry's timestamp
time_str_of(ts) ==
    LET dt == strptime(ts)
    IN  IF dt.ok THEN strftime_time(dt) ELSE <<>>

\* e.get(key, default)
Get(e, key, default) == IF key \in DOMAIN e THEN e[key] ELSE default

\* lines 561-565: newlines become blanks, more than 60 characters are cut
\* to 60 and "..."
short_text(text) ==
    LET s_text == TextReplace(text, "\n", " ")
    IN  IF TextLen(s_text) > 60
        THEN TextTake(s_text, 60) \o <<Run(".", 3)>>
        ELSE s_text

\* lines 558-568: the parts of the line of one entry,
\* "[time_str] sl->tl (chars chars)", short_source, short_target
entry_line(e) ==
    [kind |-> "entry",
     time_str |-> time_str_of(Get(e, "timestamp", <<>>)),
     sl |-> Get(e, "source_lang", <<>>),
     tl |-> Get(e, "target_lang", <<>>),
     chars |-> Get(e, "chars", 0),
     short_source |-> short_text(Get(e, "source_text", <<>>)),
     short_target |-> short_text(Get(e, "translated_text", <<>>))]

RECURSIVE render_entries(_, _)
\* lines 545-568: the loop over the entries; a header line is inserted
\* whenever the date differs from current_date, which is <<>> for None and
\* <<date_str>> afterwards
render_entries(entries, current_date) ==
    IF entries = <<>> THEN <<>>
    ELSE LET e == Head(entries)
             date_str == date_str_of(Get(e, "timestamp", <<>>))
             header == IF <<date_str>> # current_date
                       THEN << [kind |-> "header", date |-> date_str] >>
                       ELSE <<>>
         IN  header \o <<entry_line(e)>>
                \o render_entries(Tail(entries), <<date_str>>)

\* load_history_to_ui: what the history box shows for history_data
load_history_to_ui(data) ==
    LET entries == Get(data, "entries", <<>>)
    IN  IF entries = <<>>
        THEN << [kind |-> "text", text |-> "No history yet."] >>
        ELSE render_entries(entries, <<>>)

\* sequences over S of length 0..n
SeqsUpTo(S, n) == UNION { [1..k -> S] : k \in 0..n }

\* the codes looked up: two of the catalog and one that is not in it
LookupCodes == {en_code, th_code, <<"x", "x">>}

\* items of a display list: two languages, a separator, and a separator that
\* begins with a carriage return and ends like the item of English
LookupItems ==
    { format_lang(en_code), format_lang(th_code), WHO_SEPARATOR,
      <<"\r", "-", "-", "-", " ", "(", "e", "n", ")">> }

\* the timestamps of the entries to render: of two days as translate()
\* writes them, and one of the first day without a time, which strptime
\* does not take
RenderDays ==
    { [StartClock EXCEPT !.day = 14], StartClock }

DateOnly == strftime_date([StartClock EXCEPT !.day = 14])

\* a text of two lines and 61 characters, and a translation of the same form
TwoLines == <<Run("a", 30), Run("\n", 1), Run("b", 30)>>

TwoLinesTranslated == <<Run("c", 30), Run("\n", 1), Run("d", 30)>>

\* the timestamp of the second day with the year in Arabic-Indic digits,
\* which strptime reads as 2025
ArabicIndicYear ==
    <<"\\u0662", "\\u0660", "\\u0662", "\\u0665">>
        \o Drop(strftime_timestamp(StartClock), 4)

\* the entries of a history to render: of either day with a short text and
\* translation, of the second day with the year in Arabic-Indic digits, of
\* the first day with long texts, and a long one whose timestamp is a date
\* only
RenderEntries ==
    { [OldEntry EXCEPT !.timestamp = strftime_timestamp(d)] : d \in RenderDays }
    \cup
    { [OldEntry EXCEPT !.timestamp = ArabicIndicYear] }
    \cup
    { [OldEntry EXCEPT !.timestamp = ts, !.source_text = TwoLines,
                       !.chars = TextLen(TwoLines),
                       !.translated_text = TwoLinesTranslated] :
        ts \in { strftime_timestamp([StartClock EXCEPT !.day = 14]), DateOnly } }

\* the variables of the running program
app_vars ==
    <<clock, config_file, config_data, usage_file, history_file, app, usage_data,
      history_data, from_combo, to_combo, last_from_valid, last_to_valid,
      pc, req, result, gates, calls, pre, loaded, commits, usage_label>>

InitFunctions ==
    /\ clock = StartClock
    /\ config_file = Doc([google_api_key |-> "key"])
    /\ config_data = NoConfig
    /\ usage_file = Absent
    /\ history_file = Absent
    /\ app = "off"
    /\ usage_data = NoLedger
    /\ history_data = NoHistory
    /\ from_combo = <<>>
    /\ to_combo = <<>>
    /\ last_from_valid = <<>>
    /\ last_to_valid = <<>>
    /\ pc = "Idle"
    /\ req = NoReq
    /\ result = "none"
    /\ gates = <<>>
    /\ calls = 0
    /\ pre = NoSnapshot
    /\ loaded = NoLoad
    /\ commits = 0
    /\ usage_label = NoLabel
    /\ call = NoCall
    /\ ret = <<>>

\* get_display_for_code(code, display_list) for a non-empty display_list
call_get_display_for_code(code, display_list) ==
    /\ call.fn = "none"
    /\ display_list # <<>>
    /\ call' = [fn |-> "get_display_for_code", code |-> code,
                display_list |-> display_list]
    /\ ret' = get_display_for_code(code, display_list)
    /\ UNCHANGED app_vars

\* load_history_to_ui with self.history_data = [entries |-> entries]
call_load_history_to_ui(entries) ==
    /\ call.fn = "none"
    /\ call' = [fn |-> "load_history_to_ui", entries |-> entries]
    /\ ret' = load_history_to_ui([entries |-> entries])
    /\ UNCHANGED app_vars

\* what parse_lang may be handed: the items of the drop-downs, the item of
\* a code that is not in the catalog, bare codes, and (the boxes can be
\* typed into) short texts of parentheses, letters and blanks
ParseTexts ==
    { build_lang_display_list[i] : i \in DOMAIN build_lang_display_list }
    \cup { format_lang(<<"x", "x">>) }
    \cup DOMAIN LANG_CODES
    \cup SeqsUpTo({"(", ")", "e", " "}, MaxParseLen)

\* parse_lang(display_text)
call_parse_lang(display_text) ==
    /\ call.fn = "none"
    /\ call' = [fn |-> "parse_lang", display_text |-> display_text]
    /\ ret' = parse_lang(display_text)
    /\ UNCHANGED app_vars

NextFunctions ==
    \/ \E display_text \in ParseTexts : call_parse_lang(display_text)
    \/ \E code \in LookupCodes, display_list \in SeqsUpTo(LookupItems, MaxListLen) :
          call_get_display_for_code(code, display_list)
    \/ \E entries \in SeqsUpTo(RenderEntries, MaxRenderLen) :
          call_load_history_to_ui(entries)

SpecFunctions == InitFunctions /\ [][NextFunctions]_vars

-----------------------------------------------------------------------------
(* Properties of translate() *)

\* translate() has returned and its outcome is on view
Returned == app = "running" /\ pc = "Returned"

\* ledger, history and both documents are as they were when translate() began
SameAsBefore ==
    /\ usage_data = pre.usage_data
    /\ history_data = pre.history_data
    /\ usage_file = pre.usage_file
    /\ history_file = pre.history_file

Raised(g) == \E i \in DOMAIN gates : gates[i].gate = g

Confirmed(g) == \E i \in DOMAIN gates : gates[i].gate = g /\ gates[i].answer = "yes"

Rank(g) == CASE g = "same" -> 1 [] g = "large" -> 2 [] g = "quota" -> 3

\* C1: when google_translate raises (requests.HTTPError or any other
\* exception), translate() returns with the error as its outcome, and
\* used_chars, month_key and the history entries are what they were at its
\* start, in memory and in usage.json and history.json.
C1_FailureChangesNothing ==
    (app = "running" /\ req.outcome \in {"http_error", "error"}) =>
        /\ pc = "Returned"
        /\ result = (IF req.outcome = "http_error" THEN "HTTPError" ELSE "Error")
        /\ SameAsBefore

\* an HTTP error on a request made with 490,000 characters used
C1_Witness ==
    /\ Returned
    /\ result = "HTTPError"
    /\ req.outcome = "http_error"
    /\ calls = 1
    /\ usage_data.used_chars = 490000
    /\ usage_file = Doc(usage_data)

\* C2: a No at any of the three dialogs ends translate(): control is back
\* in the event loop, google_translate was not called, and used_chars,
\* month_key and the history entries are unchanged in memory and on disk.
C2_DeclineChangesNothing ==
    (app = "running" /\ gates # <<>> /\ gates[Len(gates)].answer = "no") =>
        /\ pc = "Returned"
        /\ result = "Cancelled"
        /\ calls = 0
        /\ req.outcome = "none"
        /\ SameAsBefore

\* 490,000 of 500,000 used, a text of 20,000 characters, No at the limit
\* warning: used_chars stays 490,000
C2_Witness ==
    /\ Returned
    /\ result = "Cancelled"
    /\ gates[Len(gates)] = [gate |-> "quota", answer |-> "no"]
    /\ req.char_count = 20000
    /\ usage_data.monthly_limit = 500000
    /\ usage_data.used_chars = 490000
    /\ usage_file.data.used_chars = 490000

\* the dialogs this invocation has to pass, from its text, its languages and
\* the ledger
SameApplies == req.source_lang = req.target_lang
LargeApplies == TextLen(req.text) >= limit_heavy
QuotaApplies ==
    pre.usage_data.used_chars + TextLen(req.text) > pre.usage_data.monthly_limit

\* C3: within one invocation the order is: empty-text check, "Same
\* language" (raised iff source and target are equal), "Large text", "Limit
\* warning", the call.  No dialog is raised unless every dialog before it
\* that applies was answered Yes, and google_translate is called only after
\* every dialog that applies was answered Yes.
C3_FixedOrder ==
    app = "running" =>
        /\ \A i, j \in DOMAIN gates :
              i < j => Rank(gates[i].gate) < Rank(gates[j].gate)
        /\ \A i \in DOMAIN gates : i < Len(gates) => gates[i].answer = "yes"
        /\ (gates # <<>> \/ calls > 0 \/ pc = "Translating") => req.text # <<>>
        /\ req.text # <<>> => (Raised("same") <=> SameApplies)
        /\ Raised("large") => (SameApplies => Confirmed("same"))
        /\ Raised("quota") =>
              /\ SameApplies => Confirmed("same")
              /\ LargeApplies => Confirmed("large")
        /\ (calls > 0 \/ pc = "Translating") =>
              /\ SameApplies => Confirmed("same")
              /\ LargeApplies => Confirmed("large")
              /\ QuotaApplies => Confirmed("quota")

\* all three dialogs answered Yes, one after the other, and then the call
C3_Witness ==
    /\ app = "running"
    /\ gates = << [gate |-> "same", answer |-> "yes"],
                  [gate |-> "large", answer |-> "yes"],
                  [gate |-> "quota", answer |-> "yes"] >>
    /\ calls = 1

\* C4: one invocation calls google_translate at most once: not at all when
\* the text is empty or a dialog was answered No, once otherwise, and not
\* again after it raised.
C4_AtMostOneCall ==
    app = "running" =>
        /\ calls <= 1
        /\ result \in {"EmptyInput", "Cancelled"} => calls = 0
        /\ pc \in AwaitPcs \cup {"Translating"} => calls = 0
        /\ pc \in {"SaveUsage", "Record"} => calls = 1
        /\ result \in {"HTTPError", "Error", "Succeeded", "Exception"} =>
              calls = 1 /\ pc = "Returned"

\* the call raised something other than an HTTP error and was not repeated
C4_Witness ==
    /\ Returned
    /\ result = "Error"
    /\ calls = 1

\* what the history holds after this invocation's entry went in
ExpectedEntries ==
    LET before == pre.history_data.entries
        kept == SubSeq(before, 1, Min(Len(before), HISTORY_CAP - 1))
    IN  << [timestamp |-> strftime_timestamp(clock),
            source_lang |-> parse_lang(pre.from_combo),
            target_lang |-> parse_lang(pre.to_combo),
            chars |-> req.char_count,
            source_text |-> req.text,
            translated_text |-> req.translated] >> \o kept

\* C5: after an invocation whose call returned a translation and which ran
\* to its end: used_chars is what it was plus char_count, month_key and
\* monthly_limit are unchanged, the history has one new entry, at position
\* 0, with chars = char_count, the languages and text of the request and
\* the translation, before the entries it had; usage.json and history.json
\* hold these values.
C5_SuccessCommits ==
    (Returned /\ result = "Succeeded") =>
        /\ req.outcome = "ok"
        /\ req.translated \in Translations
        /\ usage_data.used_chars = pre.usage_data.used_chars + req.char_count
        /\ usage_data.month_key = pre.usage_data.month_key
        /\ usage_data.monthly_limit = pre.usage_data.monthly_limit
        /\ history_data.entries # <<>>
        /\ history_data.entries = ExpectedEntries
        /\ usage_file = Doc(usage_data)
        /\ history_file = Doc(history_data)

\* "Hello" from en to th: one entry with chars = 5 before the older one,
\* used_chars up by 5
C5_Witness ==
    /\ Returned
    /\ result = "Succeeded"
    /\ req.text = Hello
    /\ Len(history_data.entries) = 2
    /\ history_data.entries[1].chars = 5
    /\ history_data.entries[1].source_lang = en_code
    /\ history_data.entries[1].target_lang = th_code
    /\ history_data.entries[2] = OldEntry
    /\ usage_data.used_chars = 490005

-----------------------------------------------------------------------------
(* Properties of the documents and of the ledger's month *)

\* usage.json holds the used_chars this invocation assigned
UsagePersisted ==
    /\ usage_file.kind = "doc"
    /\ usage_file.data.used_chars = req.upcoming_total

\* history.json holds the entry of this invocation
HistoryPersisted ==
    /\ history_file.kind = "doc"
    /\ history_file # pre.history_file
    /\ history_file.data.entries # <<>>
    /\ history_file.data.entries[1].source_text = req.text
    /\ history_file.data.entries[1].chars = req.char_count
    /\ history_file.data.entries[1].translated_text = req.translated

\* C6: ledger and history are updated atomically: at no point of a
\* translate() whose call returned a translation, and so in no state a
\* restart would load after a crash or a failed save, does usage.json
\* include the characters of the translation while history.json lacks its
\* entry, or the reverse.
C6_LedgerHistoryAtomic ==
    (app = "running" /\ req.outcome = "ok") =>
        (UsagePersisted <=> HistoryPersisted)

\* C7: a later load never finds a partly written usage.json or
\* history.json: whenever a save was cut short, the document is the
\* complete one from before the save or the complete new one.
C7_NoPartialWrite ==
    /\ usage_file.kind # "torn"
    /\ history_file.kind # "torn"

\* C8: whenever translate() reads the ledger, for the limit check and for
\* the commit, the ledger's month_key is the calendar month of that moment.
C8_LedgerMonthCurrent ==
    app = "running" =>
        /\ req.precheck_at # NoClock =>
              req.precheck_key = month_key_of(req.precheck_at)
        /\ req.commit_at # NoClock =>
              req.commit_key = month_key_of(req.commit_at)

\* C9: load_usage of a usage.json whose month_key is not the current month
\* returns used_chars = 0 and month_key = the current month, whatever
\* used_chars was; of one whose month_key is the current month it returns
\* used_chars as stored.
C9_LoadRollover ==
    (loaded # NoLoad /\ loaded.before.kind = "doc") =>
        LET stored == loaded.before.data
            current == month_key_of(loaded.now)
        IN  /\ loaded.data.month_key = current
            /\ loaded.data.used_chars =
                  (IF stored.month_key # current THEN 0 ELSE stored.used_chars)

\* a document of November with 490,000 used, loaded in a later month
C9_Witness ==
    /\ loaded # NoLoad
    /\ loaded.before.kind = "doc"
    /\ loaded.before.data.month_key = StaleMonthKey
    /\ loaded.before.data.used_chars = 490000
    /\ loaded.data.used_chars = 0

\* C10: whatever usage.json holds (nothing, this month, an earlier month,
\* another limit), load_usage(monthly_limit) returns a ledger with that
\* monthly_limit, and usage.json then equals the returned ledger; without a
\* usage.json the ledger is {current month, 0, monthly_limit}.
C10_LoadReconciles ==
    loaded # NoLoad =>
        /\ loaded.data.monthly_limit = loaded.monthly_limit
        /\ loaded.after = Doc(loaded.data)
        /\ loaded.before = Absent =>
              loaded.data = [month_key |-> month_key_of(loaded.now),
                             used_chars |-> 0,
                             monthly_limit |-> loaded.monthly_limit]

\* a usage.json written under a limit of 20,000, loaded with 500,000
C10_Witness ==
    /\ loaded # NoLoad
    /\ loaded.before.kind = "doc"
    /\ loaded.before.data.monthly_limit = 20000
    /\ loaded.monthly_limit = 500000
    /\ loaded.data.monthly_limit = 500000
    /\ usage_file = Doc(loaded.data)

-----------------------------------------------------------------------------
(* Properties of saving and loading *)

\* the load found a complete usage.json of the current month
LoadedCurrentLedger ==
    /\ loaded # NoLoad
    /\ loaded.before.kind = "doc"
    /\ loaded.before.data.month_key = month_key_of(loaded.now)

\* the load found a complete history.json
LoadedHistory ==
    /\ loaded # NoLoad
    /\ loaded.history_before.kind = "doc"

\* C11 as stated: load_usage and load_history return the value that was
\* saved, for every saved value, unless the saved ledger is of an earlier
\* month.
C11_RoundTrip ==
    /\ LoadedCurrentLedger => loaded.data = loaded.before.data
    /\ LoadedHistory => loaded.history = loaded.history_before.data

\* C11, amended: load_history returns the history that was saved, and
\* load_usage returns the ledger that was saved with monthly_limit replaced
\* by the limit it is called with, unless the saved ledger is of an earlier
\* month; so a ledger saved under the limit it is loaded with comes back
\* equal.
C11_RoundTripButLimit ==
    /\ LoadedCurrentLedger =>
          /\ loaded.data =
                [loaded.before.data EXCEPT !.monthly_limit = loaded.monthly_limit]
          /\ loaded.before.data.monthly_limit = loaded.monthly_limit =>
                loaded.data = loaded.before.data
    /\ LoadedHistory => loaded.history = loaded.history_before.data

\* the ledger and the history a translation of this behaviour saved, loaded
\* again at the next start
C11_Witness ==
    /\ LoadedCurrentLedger
    /\ LoadedHistory
    /\ commits = 1
    /\ loaded.before.data.used_chars = 490005
    /\ loaded.data = loaded.before.data
    /\ Len(loaded.history.entries) = 2
    /\ loaded.history.entries[1].chars = 5
    /\ usage_data = loaded.data
    /\ history_data = loaded.history

-----------------------------------------------------------------------------
(* Properties of the history *)

\* C12: while the program runs, after the load and after every translation,
\* history_data holds at most 500 entries, whatever history.json held at
\* startup.
C12_HistoryCapped ==
    app = "running" => Len(history_data.entries) <= HISTORY_CAP

\* C13: append_history_entry puts the new entry at position 0 and the
\* entries the list held after it, in their order and unchanged; a list
\* that held 500 entries holds 500 afterwards and has lost its last one.
C13_RecordAtFront ==
    [][ (pc = "Record" /\ pc' = "Returned") =>
          LET before == history_data.entries
              after == history_data'.entries
          IN  /\ after # <<>>
              /\ after[1] = history_entry(req, clock)
              /\ Len(after) = Min(Len(before) + 1, HISTORY_CAP)
              /\ \A i \in 2..Len(after) : after[i] = before[i - 1]
              /\ Len(before) = HISTORY_CAP =>
                    /\ Len(after) = HISTORY_CAP
                    /\ after[HISTORY_CAP] = before[HISTORY_CAP - 1]
                    /\ \A i \in 1..Len(after) : after[i] # before[HISTORY_CAP]
      ]_vars

\* "Hello" recorded in a list of 500 entries: 500 entries afterwards, the
\* new one first, the 499th of before last
C13_Witness ==
    /\ Returned
    /\ Len(pre.history_data.entries) = HISTORY_CAP
    /\ Len(history_data.entries) = HISTORY_CAP
    /\ history_data.entries[1].source_text = Hello
    /\ history_data.entries[2] = StoredEntry(1)
    /\ history_data.entries[HISTORY_CAP] = StoredEntry(HISTORY_CAP - 1)
    /\ history_file = Doc(history_data)

-----------------------------------------------------------------------------
(* Properties of char_count *)

\* translate() has passed line 590: the text was not empty and "Same
\* language", if raised, was answered Yes
CountTaken ==
    /\ app = "running"
    /\ req.text # <<>>
    /\ \A i \in DOMAIN gates :
          gates[i].gate = "same" => gates[i].answer = "yes"

\* append_history_entry has inserted the entry of this invocation
Recorded == Returned /\ req.outcome = "ok" /\ history_data # pre.history_data

\* what follows from char_count: the "Large text" dialog from 5000 on, the
\* total of the limit check, the used_chars assigned, the chars recorded
CountUsedThroughout ==
    /\ Raised("large") <=> req.char_count >= limit_heavy
    /\ req.precheck_at # NoClock =>
          /\ req.upcoming_total = pre.usage_data.used_chars + req.char_count
          /\ Raised("quota") <=> req.upcoming_total > req.limit
    /\ req.outcome = "ok" =>
          usage_data.used_chars = pre.usage_data.used_chars + req.char_count
    /\ Recorded => history_data.entries[1].chars = req.char_count

\* C14 as stated: char_count is the length of the text as it was in the
\* input box, and this value decides the "Large text" dialog (raised from
\* 5000 on), enters the limit check, is added to used_chars and is the
\* chars of the history entry.
C14_CountsSubmittedText ==
    CountTaken =>
        /\ req.char_count = TextLen(req.submitted)
        /\ Raised("large") <=> TextLen(req.submitted) >= limit_heavy
        /\ CountUsedThroughout

\* C14, amended: char_count is the length of the text with the whitespace
\* at its ends removed, which is the text sent to google_translate; this
\* value decides the "Large text" dialog (raised from 5000 on, not at
\* 4999), enters the limit check, is added to used_chars and is the chars
\* of the history entry.
C14_CountsTrimmedText ==
    CountTaken =>
        /\ req.text = TextStrip(req.submitted)
        /\ req.char_count = TextLen(TextStrip(req.submitted))
        /\ CountUsedThroughout

\* a form feed, "Hello" and a newline, 7 characters in the box: counted, added to
\* used_chars and recorded as 5
C14_Witness ==
    /\ Recorded
    /\ result = "Succeeded"
    /\ TextLen(req.submitted) = 7
    /\ req.text = Hello
    /\ req.char_count = 5
    /\ gates = <<>>
    /\ usage_data.used_chars = 490005
    /\ history_data.entries[1].chars = 5

-----------------------------------------------------------------------------
(* Properties of the language selection *)

\* the separator items of the drop-downs
SeparatorItems ==
    { build_lang_display_list[i] : i \in
        { j \in DOMAIN build_lang_display_list :
            is_separator_item(build_lang_display_list[j]) } }

\* what parse_lang makes of them
SeparatorCodes == { parse_lang(item) : item \in SeparatorItems }

\* C15: whatever is picked in the drop-downs (a separator too), swapped and
\* translated: the boxes and last_from_valid, last_to_valid never hold a
\* separator item, and the source_lang and target_lang of a call of
\* google_translate are language codes, never taken from a separator.
C15_SeparatorNeverEndpoint ==
    app = "running" =>
        /\ ~is_separator_item(last_from_valid)
        /\ ~is_separator_item(last_to_valid)
        /\ ~is_separator_item(from_combo)
        /\ ~is_separator_item(to_combo)
        /\ (pc = "Translating" \/ calls > 0) =>
              /\ req.source_lang \notin SeparatorCodes
              /\ req.target_lang \notin SeparatorCodes
              /\ req.source_lang \in DOMAIN LANG_CODES
              /\ req.target_lang \in DOMAIN LANG_CODES

\* the boxes were brought to Thai -> Thai by picking and swapping, and the
\* call was made with th, th (picking a separator in a box leaves the box
\* and the last valid item as they are, in this state as in every other)
C15_Witness ==
    /\ app = "running"
    /\ calls = 1
    /\ from_combo = format_lang(th_code)
    /\ to_combo = format_lang(th_code)
    /\ last_from_valid = from_combo
    /\ req.source_lang = th_code
    /\ req.target_lang = th_code
    /\ SeparatorItems # {}

-----------------------------------------------------------------------------
(* Properties of get_display_for_code *)

\* the positions of display_list whose item is no separator and ends with
\* "(code)"
Matches(code, display_list) ==
    { i \in DOMAIN display_list :
        /\ ~is_separator_item(display_list[i])
        /\ EndsWith(display_list[i], <<"(">> \o code \o <<")">>) }

\* C16: get_display_for_code(code, display_list) never returns a separator
\* item, for every code and every non-empty display_list (also when nothing
\* matches and when the list begins with a separator); when items match, it
\* returns the first of them.
C16_NeverReturnsSeparator ==
    call.fn = "get_display_for_code" =>
        /\ ~is_separator_item(ret)
        /\ \A i \in Matches(call.code, call.display_list) :
              (\A j \in Matches(call.code, call.display_list) : i <= j) =>
                  ret = call.display_list[i]

-----------------------------------------------------------------------------
(* Properties of load_history_to_ui *)

RECURSIVE FirstDates(_, _)
\* the dates of the entries in the order they first occur
FirstDates(entries, seen) ==
    IF entries = <<>> THEN <<>>
    ELSE LET d == date_str_of(Head(entries).timestamp)
         IN  IF d \in seen
             THEN FirstDates(Tail(entries), seen)
             ELSE <<d>> \o FirstDates(Tail(entries), seen \cup {d})

\* the dates of the header lines, in their order
HeaderDates(lines) ==
    LET headers == SelectSeq(lines, LAMBDA l : l.kind = "header")
    IN  [i \in DOMAIN headers |-> headers[i].date]

\* where the line of the i-th entry stands
EntryLineAt(lines, i) ==
    CHOOSE j \in DOMAIN lines :
        /\ lines[j].kind = "entry"
        /\ Cardinality({ m \in 1..j : lines[m].kind = "entry" }) = i

\* C20: for every list of entries, whatever the order of their timestamps,
\* load_history_to_ui writes the header of each date exactly once, the
\* headers in the order in which the dates first occur in the list, and
\* every entry after the header of its date.
C20_HeaderOncePerDate ==
    (call.fn = "load_history_to_ui" /\ call.entries # <<>>) =>
        /\ HeaderDates(ret) = FirstDates(call.entries, {})
        /\ \A i \in DOMAIN call.entries :
              \E h \in 1..EntryLineAt(ret, i) :
                  /\ ret[h].kind = "header"
                  /\ ret[h].date = date_str_of(call.entries[i].timestamp)

-----------------------------------------------------------------------------
(* Properties of the empty text, of failing saves and of the limit check *)

\* translate() was invoked and has not yet returned to mainloop
Invoked == app = "running" /\ pre # NoSnapshot

\* C17: translate() with a text that is empty once the whitespace at its
\* ends is removed returns at once with the "No text" warning: no dialog is
\* raised, google_translate is not called, used_chars, the history and both
\* documents are unchanged; no other text is rejected this way.
C17_EmptyRejected ==
    Invoked =>
        /\ TextStrip(req.submitted) = <<>> =>
              /\ pc = "Returned"
              /\ result = "EmptyInput"
              /\ gates = <<>>
              /\ calls = 0
              /\ SameAsBefore
        /\ result = "EmptyInput" => TextStrip(req.submitted) = <<>>

\* a blank, a carriage return and a vertical tab in the input box, 490,000
\* characters used
C17_Witness ==
    /\ Returned
    /\ result = "EmptyInput"
    /\ TextLen(req.submitted) = 3
    /\ gates = <<>>
    /\ calls = 0
    /\ usage_data.used_chars = 490000
    /\ Len(history_data.entries) = 1

\* C18: a save_usage or save_history that fails after google_translate
\* returned a translation does not make the invocation fail: it still ends
\* as a success, with used_chars raised by char_count in memory and the
\* entry of the translation first in the history.
C18_SaveBestEffort ==
    (Returned /\ req.outcome = "ok") =>
        /\ result = "Succeeded"
        /\ usage_data.used_chars = pre.usage_data.used_chars + req.char_count
        /\ history_data.entries = ExpectedEntries

\* the remaining characters of a ledger
RemainingOf(ledger) ==
    IF ledger.used_chars >= ledger.monthly_limit
    THEN 0
    ELSE ledger.monthly_limit - ledger.used_chars

\* the limit check of lines 601-605 has been made
Prechecked == Invoked /\ req.precheck_at # NoClock

\* C19: "Limit warning" is raised iff used_chars + char_count >
\* monthly_limit (a request that reaches the limit exactly raises none); the
\* check itself changes nothing; the labels, whenever they were renewed, show
\* remaining = max(monthly_limit - used_chars, 0); and used_chars goes above
\* monthly_limit only in an invocation whose "Limit warning" was answered
\* Yes.
C19_QuotaGateStrict ==
    /\ Prechecked =>
          /\ req.used = pre.usage_data.used_chars
          /\ req.limit = pre.usage_data.monthly_limit
          /\ Raised("quota") <=> req.used + req.char_count > req.limit
    /\ (Prechecked /\ pc \in {"AwaitQuota", "Translating"}) => SameAsBefore
    /\ (app = "running" /\ pc \in {"Started", "Record"}) =>
          /\ usage_label.remaining = RemainingOf(usage_data)
          /\ usage_label.remaining >= 0
    /\ (Invoked /\ req.outcome = "ok"
           /\ usage_data.used_chars > usage_data.monthly_limit) =>
          Confirmed("quota")
    /\ (Invoked /\ usage_data.used_chars > pre.usage_data.used_chars
           /\ usage_data.used_chars > usage_data.monthly_limit) =>
          Confirmed("quota") /\ req.outcome = "ok"

\* 20,000 characters with nothing used and a limit of 20,000: the limit is
\* reached exactly, no "Limit warning", the translation is committed
C19_Witness ==
    /\ Returned
    /\ result = "Succeeded"
    /\ req.used = 0
    /\ req.char_count = 20000
    /\ req.limit = 20000
    /\ ~Raised("quota")
    /\ Confirmed("large")
    /\ usage_data.used_chars = usage_data.monthly_limit
    /\ usage_label.remaining = 0

-----------------------------------------------------------------------------
(* Properties of parse_lang *)

\* the position of the last c in s
LastIndexOf(s, c) ==
    CHOOSE k \in DOMAIN s : s[k] = c /\ \A m \in (k + 1)..Len(s) : s[m] # c

\* what stands between the last "(" of s and the ")" that ends s
BetweenParens(s) == SubSeq(s, LastIndexOf(s, "(") + 1, Len(s) - 1)

\* s holds a "(" and ends with a ")" that comes after it
HasParens(s) ==
    /\ Contains(s, "(")
    /\ s[Len(s)] = ")"

\* k times ")"
Closings(k) == [i \in 1..k |-> ")"]

\* "English (en)" and "en" give "en", and the item of every code of the
\* catalog gives the code
ParsesCatalog ==
    /\ call.display_text =
          <<"E", "n", "g", "l", "i", "s", "h", " ", "(", "e", "n", ")">> =>
             ret = <<"e", "n">>
    /\ call.display_text = <<"e", "n">> => ret = <<"e", "n">>
    /\ \A code \in DOMAIN LANG_CODES :
          call.display_text = format_lang(code) => ret = code

\* C21 as stated: parse_lang returns what stands between the last "(" and
\* the ")" at the end when the text has parentheses, and the text itself
\* when it has none; so the item of every catalog code gives the code,
\* "English (en)" gives "en" and "en" gives "en".
C21_ParsesBetweenParens ==
    call.fn = "parse_lang" =>
        /\ HasParens(call.display_text) =>
              ret = BetweenParens(call.display_text)
        /\ (~Contains(call.display_text, "(")
               /\ ~Contains(call.display_text, ")")) =>
              ret = call.display_text
        /\ ParsesCatalog

\* C21, amended: for a text with "(" and ")", parse_lang returns what
\* follows the last "(" with every ")" at its two ends removed, which for a
\* text that ends with one ")" and has no ")" right after its last "(" is
\* what stands between these two; a text without "(" or without ")" is
\* returned as it is; so the item of every catalog code gives the code,
\* "English (en)" gives "en" and "en" gives "en".
C21_ParsesAfterLastParen ==
    call.fn = "parse_lang" =>
        LET s == call.display_text
            both == Contains(s, "(") /\ Contains(s, ")")
            rest == SubSeq(s, LastIndexOf(s, "(") + 1, Len(s))
        IN  /\ both =>
                  /\ \E a, b \in 0..Len(rest) :
                        rest = Closings(a) \o ret \o Closings(b)
                  /\ ret # <<>> => ret[1] # ")" /\ ret[Len(ret)] # ")"
            /\ (HasParens(s) /\ BetweenParens(s) # <<>>
                   /\ BetweenParens(s)[1] # ")"
                   /\ BetweenParens(s)[Len(BetweenParens(s))] # ")") =>
                  ret = BetweenParens(s)
            /\ ~both => ret = s
            /\ ParsesCatalog

\* "Thai (th)" parsed to "th"
C21_Witness ==
    /\ call.fn = "parse_lang"
    /\ call.display_text = format_lang(th_code)
    /\ call.display_text = <<"T", "h", "a", "i", " ", "(", "t", "h", ")">>
    /\ ret = th_code

====
